---- MODULE Spec2Model ----
(***************************************************************************)
(* CoreLocalArray<T> (util/core_local.h): an array with one slot per       *)
(* (power-of-two rounded) core.  The model covers the constructor's sizing *)
(* loop and allocation, Size(), Access(), AccessElementAndIndex() and      *)
(* AccessAtCore(), and the callers that read and write slot contents       *)
(* through the returned pointers.                                          *)
(*                                                                         *)
(* unsigned int values are 32-bit bit vectors (bit i has weight 2^i), so   *)
(* the whole range of std::thread::hardware_concurrency() is covered.      *)
(* int values are TLA+ integers inside [-2^31, 2^31-1].  A T* is an        *)
(* address counted in units of sizeof(T).                                  *)
(***************************************************************************)
EXTENDS Integers, FiniteSets

VARIABLES ndebug, ctor_pc, num_cpus, size_shift_, data_, heap, ub, aborted,
          pc, cpuid, core_idx, ptr, tmp, ninc,
          incs, writers, agg_pc, agg_i, agg_sum, agg_clean

vars == <<ndebug, ctor_pc, num_cpus, size_shift_, data_, heap, ub, aborted,
          pc, cpuid, core_idx, ptr, tmp, ninc,
          incs, writers, agg_pc, agg_i, agg_sum, agg_clean>>

objVars == <<ndebug, ctor_pc, num_cpus, size_shift_, data_, ub>>
thrVars == <<pc, cpuid, core_idx, ptr, tmp, ninc>>
aggVars == <<agg_pc, agg_i, agg_sum, agg_clean>>
ghostVars == <<incs, writers>>

(***************************************************************************)
(* Bounds of the model.                                                    *)
(***************************************************************************)
\* the sizing loop is followed up to this shift count once it has left the
\* defined range of the shift operator
MaxShift == 34
\* the largest array (in elements) the heap can hold; larger requests end in
\* std::bad_alloc
HeapSlots == 32
\* how far past Size() a caller's index argument may lie
OverRun == 1
\* increments each writer thread performs
MaxIncs == 1

Threads == {"t1", "t2"}

(***************************************************************************)
(* 32-bit unsigned arithmetic on bit vectors.                              *)
(***************************************************************************)
UIntBits == 32

Bits == 0..(UIntBits - 1)

\* the unsigned int holding the natural number x (x <= INT_MAX)
U32(x) == [i \in Bits |-> IF i < UIntBits - 1 THEN (x \div (2 ^ i)) % 2 ELSE 0]

ZeroU == [i \in Bits |-> 0]

\* a < b on unsigned int
ULess(a, b) == \E i \in Bits : /\ a[i] < b[i]
                               /\ \A j \in (i + 1)..(UIntBits - 1) : a[j] = b[j]

\* 1u << s for a shift count inside the width
Shl1u(s) == [i \in Bits |-> IF i = s THEN 1 ELSE 0]

\* 1u << s as the build can evaluate it: a count >= the width is undefined;
\* the hardware yields 0 (count not masked) or 1u << (s mod 32) (count masked)
Shl1uOutcomes(s) == IF s < UIntBits THEN {Shl1u(s)}
                    ELSE {ZeroU, Shl1u(s % UIntBits)}

RECURSIVE ToNatFrom(_, _)
ToNatFrom(b, i) == IF i >= UIntBits THEN 0
                   ELSE IF b[i] = 1 THEN 2 ^ i + ToNatFrom(b, i + 1)
                   ELSE ToNatFrom(b, i + 1)

\* widening an unsigned int to size_t
ToNat(b) == ToNatFrom(b, 0)

(***************************************************************************)
(* 32-bit signed arithmetic.                                               *)
(***************************************************************************)
IntMin == (-(2 ^ (UIntBits - 2))) - 2 ^ (UIntBits - 2)

\* 1 << s on int.  2^31 is not representable: the shift by 31 overflows and
\* the two's complement result is INT_MIN.  No larger count reaches a signed
\* shift: the sizing loop cannot end with one (see CtorLoopExit).
Shl1(s) == IF s < UIntBits - 1 THEN 2 ^ s ELSE IntMin

RECURSIVE BitAnd(_, _)
\* a & b on non-negative int
BitAnd(a, b) == IF a = 0 \/ b = 0 THEN 0
                ELSE (a % 2) * (b % 2) + 2 * BitAnd(a \div 2, b \div 2)

(***************************************************************************)
(* Inputs.                                                                 *)
(***************************************************************************)
\* values std::thread::hardware_concurrency() reports
NumCpusInputs ==
    {U32(0), U32(4), U32(8), U32(9), U32(16), U32(20), U32(33),
     U32(2 ^ 30), U32(2 ^ 30 + 1), U32(2147483647),
     Shl1u(31), [Shl1u(31) EXCEPT ![0] = 1], [i \in Bits |-> 1]}

\* the core counts of the machines the accessors are exercised on
NumCpusInputsSmall == {U32(4), U32(9)}

\* the core count of the machine the writers and the aggregation run on
NumCpusInputsRW == {U32(9)}

\* values port::PhysicalCoreID() returns; negative: unavailable
CoreIds == {-7, -1, 5, 13, 2147483647}

CoreIdsRW == {5, 13}

\* addresses operator new[] can return
AllocBases == {4096}

(***************************************************************************)
(* Initial state: before the constructor body runs.                       *)
(***************************************************************************)
InitWith(inputs) ==
    /\ ndebug \in BOOLEAN
    /\ ctor_pc = "start"
    /\ num_cpus \in inputs
    /\ size_shift_ = 0
    /\ data_ = 0
    /\ heap = << >>
    /\ ub = {}
    /\ aborted = "none"
    /\ pc = [t \in Threads |-> "idle"]
    /\ cpuid = [t \in Threads |-> 0]
    /\ core_idx = [t \in Threads |-> 0]
    /\ ptr = [t \in Threads |-> 0]
    /\ tmp = [t \in Threads |-> 0]
    /\ ninc = [t \in Threads |-> 0]
    /\ incs = << >>
    /\ writers = << >>
    /\ agg_pc = "idle"
    /\ agg_i = 0
    /\ agg_sum = 0
    /\ agg_clean = TRUE

InitCtor == InitWith(NumCpusInputs)

Init == InitWith(NumCpusInputsSmall)

InitRW == InitWith(NumCpusInputsRW)

(***************************************************************************)
(* CoreLocalArray::CoreLocalArray                                          *)
(***************************************************************************)
InitialShift == 3

CtorInit ==
    /\ ctor_pc = "start"
    /\ size_shift_' = InitialShift
    /\ ctor_pc' = "loop"
    /\ UNCHANGED <<ndebug, num_cpus, data_, heap, ub, aborted>>
    /\ UNCHANGED <<thrVars, aggVars, ghostVars>>

\* a faulty variant: "<=" for "<"
LoopCondLe(v) == ~ULess(num_cpus, v)

\* while (1u << size_shift_ < num_cpus), on the value v the shift produced
LoopCond(v) == ULess(v, num_cpus)

UbAfterShift == IF size_shift_ < UIntBits THEN ub ELSE ub \cup {"shift_count"}

CtorLoopIterate ==
    /\ ctor_pc = "loop"
    /\ size_shift_ < MaxShift
    /\ \E v \in Shl1uOutcomes(size_shift_) : LoopCond(v)
    /\ size_shift_' = size_shift_ + 1
    /\ ub' = UbAfterShift
    /\ UNCHANGED <<ndebug, ctor_pc, num_cpus, data_, heap, aborted>>
    /\ UNCHANGED <<thrVars, aggVars, ghostVars>>

CtorLoopExit ==
    /\ ctor_pc = "loop"
    /\ \E v \in Shl1uOutcomes(size_shift_) : ~LoopCond(v)
    /\ ctor_pc' = "alloc"
    /\ ub' = UbAfterShift
    /\ UNCHANGED <<ndebug, num_cpus, size_shift_, data_, heap, aborted>>
    /\ UNCHANGED <<thrVars, aggVars, ghostVars>>

\* the element count of new T[1 << size_shift_]
AllocLen == Shl1(size_shift_)

\* data_.reset(new T[1 << size_shift_]): the block of default-constructed T
CtorAlloc ==
    /\ ctor_pc = "alloc"
    /\ AllocLen >= 0
    /\ AllocLen <= HeapSlots
    /\ \E b \in AllocBases :
         /\ data_' = b
         /\ heap' = [a \in b..(b + AllocLen - 1) |-> 0]
    /\ incs' = [i \in 0..(AllocLen - 1) |-> 0]
    /\ writers' = [i \in 0..(AllocLen - 1) |-> {}]
    /\ ctor_pc' = "ready"
    /\ UNCHANGED <<ndebug, num_cpus, size_shift_, ub, aborted>>
    /\ UNCHANGED <<thrVars, aggVars>>

\* operator new[] is out of memory
CtorAllocFail ==
    /\ ctor_pc = "alloc"
    /\ AllocLen >= 0
    /\ ctor_pc' = "bad_alloc"
    /\ UNCHANGED <<ndebug, num_cpus, size_shift_, data_, heap, ub, aborted>>
    /\ UNCHANGED <<thrVars, aggVars, ghostVars>>

\* 1 << 31 overflows int: the element count is negative (or, converted to
\* size_t, larger than any object), and new[] throws
CtorAllocOverflow ==
    /\ ctor_pc = "alloc"
    /\ AllocLen < 0
    /\ ctor_pc' \in {"bad_array_new_length", "bad_alloc"}
    /\ ub' = ub \cup {"signed_shift_overflow"}
    /\ UNCHANGED <<ndebug, num_cpus, size_shift_, data_, heap, aborted>>
    /\ UNCHANGED <<thrVars, aggVars, ghostVars>>

(***************************************************************************)
(* CoreLocalArray::Size                                                    *)
(***************************************************************************)
\* 1u << size_shift_, as unsigned int
SizeU == Shl1u(size_shift_)

\* 1u << size_shift_ widened to size_t, as a number; the shift count of a
\* constructed array is below 31 (CtorAlloc), where the shift is 2^size_shift_
Size == 2 ^ size_shift_

(***************************************************************************)
(* CoreLocalArray::AccessAtCore                                            *)
(***************************************************************************)
\* a faulty variant: "<=" for "<" in the assertion
AssertHoldsLe(i) == i <= Size

\* assert(core_idx < 1u << size_shift_)
AssertHolds(i) == i < Size

\* the assertion aborts the process; compiled out under NDEBUG
AccessAtCoreAborts(i) == ~ndebug /\ ~AssertHolds(i)

\* a faulty variant: every index designates the first slot
AccessAtCorePtrFirst(i) == data_

\* a faulty variant: the index is halved
AccessAtCorePtrHalf(i) == data_ + (i \div 2)

\* &data_[core_idx]; with the assertion compiled out an index >= Size() is
\* not checked and the address computed lies past the block
AccessAtCorePtr(i) == data_ + i

(***************************************************************************)
(* CoreLocalArray::AccessElementAndIndex, CoreLocalArray::Access           *)
(***************************************************************************)
\* Random::Uniform(n): some value of [0, n)
Uniform(n) == 0..(n - 1)

\* a faulty variant: one more than the slot count
UniformArgPlusOne == Shl1(size_shift_) + 1

\* the argument of Uniform: 1 << size_shift_
UniformArg == Shl1(size_shift_)

\* a faulty variant: (1 << size_shift_) without the - 1
CoreMaskNoMinus == Shl1(size_shift_)

\* (1 << size_shift_) - 1
CoreMask == Shl1(size_shift_) - 1

\* a faulty variant: an unidentified thread always gets slot 0
CoreIdxChoicesZero(c) == IF c < 0 THEN {0} ELSE {BitAnd(c, CoreMask)}

\* a faulty variant: the branch condition inverted
CoreIdxChoicesInverted(c) == IF c >= 0 THEN Uniform(UniformArg) ELSE {0}

\* the values core_idx can take for the core id c
CoreIdxChoices(c) == IF c < 0 THEN Uniform(UniformArg)
                     ELSE {BitAnd(c, CoreMask)}

Usable == ctor_pc = "ready" /\ aborted = "none"

\* the indices a call can produce or be given
IdxArgs == 0..(Size + OverRun)

Returned(t, how, c, i) ==
    /\ pc' = [pc EXCEPT ![t] = how]
    /\ cpuid' = [cpuid EXCEPT ![t] = c]
    /\ core_idx' = [core_idx EXCEPT ![t] = i]
    /\ ptr' = [ptr EXCEPT ![t] = AccessAtCorePtr(i)]
    /\ UNCHANGED <<tmp, ninc, aborted>>

Abort(where) ==
    /\ aborted' = where
    /\ UNCHANGED thrVars

\* a faulty variant: the call replaces the block
CallAccessElementAndIndexRealloc(t, c, i) ==
    /\ Usable
    /\ pc[t] # "loaded"
    /\ i \in CoreIdxChoices(c)
    /\ \E b \in {data_, data_ + Size} :
         /\ data_' = b
         /\ heap' = [a \in b..(b + Size - 1) |-> 0]
    /\ pc' = [pc EXCEPT ![t] = "ret_AEAI"]
    /\ cpuid' = [cpuid EXCEPT ![t] = c]
    /\ core_idx' = [core_idx EXCEPT ![t] = i]
    /\ ptr' = [ptr EXCEPT ![t] = AccessAtCorePtr(i)]
    /\ UNCHANGED <<tmp, ninc, aborted>>
    /\ UNCHANGED <<ndebug, ctor_pc, num_cpus, size_shift_, ub>>
    /\ UNCHANGED <<aggVars, ghostVars>>

\* thread t calls AccessElementAndIndex(); PhysicalCoreID() returns c and the
\* index computed is i
CallAccessElementAndIndex(t, c, i) ==
    /\ Usable
    /\ pc[t] # "loaded"
    /\ i \in CoreIdxChoices(c)
    /\ IF AccessAtCoreAborts(i)
         THEN Abort("AccessElementAndIndex")
         ELSE Returned(t, "ret_AEAI", c, i)
    /\ UNCHANGED <<objVars, heap, aggVars, ghostVars>>

\* thread t calls Access(): the pointer half of AccessElementAndIndex()
CallAccess(t, c, i) ==
    /\ Usable
    /\ pc[t] # "loaded"
    /\ i \in CoreIdxChoices(c)
    /\ IF AccessAtCoreAborts(i)
         THEN Abort("AccessElementAndIndex")
         ELSE Returned(t, "ret_Access", c, i)
    /\ UNCHANGED <<objVars, heap, aggVars, ghostVars>>

\* thread t calls AccessAtCore(i) with an index of its own choice; no core id
\* is queried
CallAccessAtCore(t, i) ==
    /\ Usable
    /\ pc[t] # "loaded"
    /\ IF AccessAtCoreAborts(i)
         THEN Abort("AccessAtCore")
         ELSE Returned(t, "ret_AtCore", 0, i)
    /\ UNCHANGED <<objVars, heap, aggVars, ghostVars>>

\* thread t calls AccessAtCore with the index an earlier
\* AccessElementAndIndex() returned to it
CallAccessAtCoreCached(t) ==
    /\ Usable
    /\ pc[t] \in {"ret_AEAI", "stored"}
    /\ IF AccessAtCoreAborts(core_idx[t])
         THEN Abort("AccessAtCore")
         ELSE Returned(t, "ret_AtCore", cpuid[t], core_idx[t])
    /\ UNCHANGED <<objVars, heap, aggVars, ghostVars>>

(***************************************************************************)
(* Callers: a non-atomic read-modify-write of the slot a thread holds, and *)
(* an aggregation over every slot.                                         *)
(***************************************************************************)
\* a writer thread that has increments left to do
Working(t) == ninc[t] < MaxIncs

\* tmp = *ptr
Load(t) ==
    /\ Usable
    /\ pc[t] \in {"ret_AEAI", "ret_AtCore", "stored"}
    /\ Working(t)
    /\ ptr[t] \in DOMAIN heap
    /\ tmp' = [tmp EXCEPT ![t] = heap[ptr[t]]]
    /\ pc' = [pc EXCEPT ![t] = "loaded"]
    /\ writers' = [writers EXCEPT ![core_idx[t]] = @ \cup {t}]
    /\ UNCHANGED <<cpuid, core_idx, ptr, ninc, aborted, incs>>
    /\ UNCHANGED <<objVars, heap, aggVars>>

\* *ptr = tmp + 1
Store(t) ==
    /\ Usable
    /\ pc[t] = "loaded"
    /\ heap' = [heap EXCEPT ![ptr[t]] = tmp[t] + 1]
    /\ pc' = [pc EXCEPT ![t] = "stored"]
    /\ ninc' = [ninc EXCEPT ![t] = @ + 1]
    /\ incs' = [incs EXCEPT ![core_idx[t]] = @ + 1]
    /\ agg_clean' = (agg_clean /\ agg_pc = "idle")
    /\ UNCHANGED <<cpuid, core_idx, ptr, tmp, aborted, writers>>
    /\ UNCHANGED <<objVars, agg_pc, agg_i, agg_sum>>

\* for (i = 0; i < Size(); ++i) sum += *AccessAtCore(i)
AggStart ==
    /\ Usable
    /\ agg_pc \in {"idle", "done"}
    /\ agg_pc' = "running"
    /\ agg_i' = 0
    /\ agg_sum' = 0
    /\ agg_clean' = TRUE
    /\ UNCHANGED <<objVars, heap, aborted, thrVars, ghostVars>>

AggStep ==
    /\ Usable
    /\ agg_pc = "running"
    /\ agg_i < Size
    /\ ~AccessAtCoreAborts(agg_i)
    /\ agg_sum' = agg_sum + heap[AccessAtCorePtr(agg_i)]
    /\ agg_i' = agg_i + 1
    /\ UNCHANGED <<agg_pc, agg_clean>>
    /\ UNCHANGED <<objVars, heap, aborted, thrVars, ghostVars>>

AggDone ==
    /\ Usable
    /\ agg_pc = "running"
    /\ ~(agg_i < Size)
    /\ agg_pc' = "done"
    /\ UNCHANGED <<agg_i, agg_sum, agg_clean>>
    /\ UNCHANGED <<objVars, heap, aborted, thrVars, ghostVars>>

(***************************************************************************)
(* Specifications.                                                         *)
(***************************************************************************)
\* construction for every reported core count
NextCtor ==
    \/ CtorInit
    \/ CtorLoopIterate
    \/ CtorLoopExit
    \/ CtorAlloc
    \/ CtorAllocFail
    \/ CtorAllocOverflow

SpecCtor == InitCtor /\ [][NextCtor]_vars

\* construction and the accessors
Next ==
    \/ CtorInit
    \/ CtorLoopIterate
    \/ CtorLoopExit
    \/ CtorAlloc
    \/ CtorAllocFail
    \/ \E t \in Threads, c \in CoreIds : \E i \in CoreIdxChoices(c) :
         CallAccessElementAndIndex(t, c, i)
    \/ \E t \in Threads, c \in CoreIds : \E i \in CoreIdxChoices(c) :
         CallAccess(t, c, i)
    \/ \E t \in Threads : \E i \in IdxArgs : CallAccessAtCore(t, i)

Spec == Init /\ [][Next]_vars

\* construction, the accessors, and the callers' reads and writes of slots
NextRW ==
    \/ CtorInit
    \/ CtorLoopIterate
    \/ CtorLoopExit
    \/ CtorAlloc
    \/ CtorAllocFail
    \/ \E t \in Threads, c \in CoreIdsRW : \E i \in CoreIdxChoices(c) :
         Working(t) /\ CallAccessElementAndIndex(t, c, i)
    \/ \E t \in Threads : Working(t) /\ CallAccessAtCoreCached(t)
    \/ \E t \in Threads : Load(t)
    \/ \E t \in Threads : Store(t)
    \/ AggStart
    \/ AggStep
    \/ AggDone

SpecRW == InitRW /\ [][NextRW]_vars

(***************************************************************************)
(* Properties.                                                             *)
(***************************************************************************)
\* x >> 1 on unsigned int
Shr1u(a) == [i \in Bits |-> IF i < UIntBits - 1 THEN a[i + 1] ELSE 0]

\* the sum of the contents of the owned block
RECURSIVE SumFrom(_)
SumFrom(a) == IF a \in DOMAIN heap THEN heap[a] + SumFrom(a + 1) ELSE 0

SumHeap == SumFrom(data_)

Slots == 0..(Size - 1)

\* C1: once the sizing loop has ended, and in the constructed array, Size()
\* is a power of two, at least 8, at least the reported core count, and no
\* smaller power of two is both: Size() = min{2^k : 2^k >= max(n, 8)}.
C1_SizeIsSmallestPow2 ==
    ctor_pc \in {"alloc", "ready"} =>
        /\ Cardinality({i \in Bits : SizeU[i] = 1}) = 1
        /\ ~ULess(SizeU, U32(8))
        /\ ~ULess(SizeU, num_cpus)
        /\ ULess(U32(8), SizeU) => ULess(Shr1u(SizeU), num_cpus)
        /\ ctor_pc = "ready" => Size >= 8 /\ Size = ToNat(SizeU)

\* 20 cores: an array of 32 slots has been constructed
C1_Witness == ctor_pc = "ready" /\ num_cpus = U32(20) /\ Size = 32

\* C10: for every core count the constructor's arithmetic stays defined: the
\* shift count stays within [3, 31], no shift overflows its type, and
\* construction does not fail with anything but out-of-memory.
C10_NoOverflow ==
    /\ ub = {}
    /\ ctor_pc # "start" => size_shift_ \in 3..(UIntBits - 1)
    /\ ctor_pc # "bad_array_new_length"

\* C2: a call that saw a non-negative core id c returned the index
\* c mod Size() and the address AccessAtCore gives for that index, a slot of
\* the block.
C2_MaskIsMod ==
    \A t \in Threads :
        (pc[t] = "ret_AEAI" /\ cpuid[t] >= 0) =>
            /\ core_idx[t] = cpuid[t] % Size
            /\ ptr[t] = AccessAtCorePtr(core_idx[t])
            /\ ptr[t] \in DOMAIN heap

\* Size() = 8 and core id 13: index 5
C2_Witness ==
    \E t \in Threads :
        pc[t] = "ret_AEAI" /\ cpuid[t] = 13 /\ Size = 8 /\ core_idx[t] = 5

\* C3: whatever the core id, a call of Access() or AccessElementAndIndex()
\* has an outcome, every outcome passes the bounds assertion with an index
\* in [0, Size()), and the assertion never fails below AccessElementAndIndex.
C3_NoErrorPath ==
    /\ aborted # "AccessElementAndIndex"
    /\ \A t \in Threads :
           pc[t] \in {"ret_AEAI", "ret_Access"} => core_idx[t] \in Slots
    /\ Usable =>
           \A c \in CoreIds :
               /\ CoreIdxChoices(c) # {}
               /\ \A i \in CoreIdxChoices(c) :
                      i \in Slots /\ ~AccessAtCoreAborts(i)

\* both kinds of core id have been served
C3_Witness ==
    \E t, u \in Threads :
        /\ pc[t] = "ret_Access" /\ cpuid[t] < 0
        /\ pc[u] = "ret_AEAI" /\ cpuid[u] = 2147483647

C7_SamePointer ==
    [][ /\ \A t \in Threads :
               ( /\ pc[t] = "ret_Access" /\ pc'[t] = "ret_Access"
                 /\ cpuid[t] >= 0 /\ cpuid'[t] = cpuid[t] ) =>
                   ptr'[t] = ptr[t]
        /\ \A t, u \in Threads :
               ( /\ pc'[t] = "ret_Access" /\ pc'[u] = "ret_Access"
                 /\ cpuid'[t] >= 0 /\ cpuid'[u] >= 0
                 /\ cpuid'[t] % Size' = cpuid'[u] % Size' ) =>
                   ptr'[t] = ptr'[u] ]_vars

\* core ids 5 and 13 on 8 slots
C7_Witness ==
    /\ Size = 8
    /\ pc["t1"] = "ret_Access" /\ cpuid["t1"] = 5
    /\ pc["t2"] = "ret_Access" /\ cpuid["t2"] = 13
    /\ ptr["t1"] = ptr["t2"]

\* C8: with the core id unavailable, a call can return index i exactly when
\* i is in [0, Size()), and an index it did return is in that range.
C8_RandomCoversAllSlots ==
    /\ \A t \in Threads :
           (pc[t] \in {"ret_AEAI", "ret_Access"} /\ cpuid[t] < 0) =>
               core_idx[t] \in Slots
    /\ Usable =>
           \A t \in Threads : \A c \in {x \in CoreIds : x < 0} :
               \A i \in IdxArgs :
                   (ENABLED CallAccessElementAndIndex(t, c, i)) <=> i \in Slots

\* an unidentified thread was given the last slot
C8_Witness ==
    \E t \in Threads :
        pc[t] = "ret_AEAI" /\ cpuid[t] < 0 /\ core_idx[t] = Size - 1

\* C5: the addresses of two valid indices are equal exactly when the indices
\* are, each lies in the owned block, and a store through the slot of index
\* i leaves every other slot as it was.
C5_DistinctSlots ==
    [][ Usable =>
          /\ \A i, j \in Slots :
                 (AccessAtCorePtr(i) = AccessAtCorePtr(j)) <=> (i = j)
          /\ \A i \in Slots : AccessAtCorePtr(i) \in DOMAIN heap
          /\ \A t \in Threads : \A i \in Slots :
                 ( /\ pc[t] = "loaded" /\ pc'[t] = "stored"
                   /\ ptr[t] = AccessAtCorePtr(i) ) =>
                     /\ heap'[AccessAtCorePtr(i)] = tmp[t] + 1
                     /\ \A j \in Slots \ {i} :
                            heap'[AccessAtCorePtr(j)] = heap[AccessAtCorePtr(j)]
      ]_vars

\* one slot has been written and another still holds its initial value
C5_Witness ==
    /\ Usable
    /\ \E t \in Threads : pc[t] = "stored"
    /\ \E i, j \in Slots :
           heap[AccessAtCorePtr(i)] = 1 /\ heap[AccessAtCorePtr(j)] = 0

\* C6: once the array is constructed no step changes size_shift_, Size(),
\* data_, the extent of the block or the address of an index, and the index
\* a thread holds stays in range and keeps designating the address returned
\* with it.
C6_Frame ==
    [][ ctor_pc = "ready" =>
          /\ ctor_pc' = "ready"
          /\ size_shift_' = size_shift_
          /\ Size' = Size
          /\ data_' = data_
          /\ DOMAIN heap' = DOMAIN heap
          /\ \A i \in Slots : data_' + i = AccessAtCorePtr(i)
          /\ \A t \in Threads :
                 pc'[t] # "idle" =>
                     /\ core_idx'[t] < Size'
                     /\ data_' + core_idx'[t] = ptr'[t]
                     /\ ptr'[t] \in DOMAIN heap'
      ]_vars

\* a cached index has been used again after slot contents changed
C6_Witness ==
    /\ ctor_pc = "ready"
    /\ \E t \in Threads : pc[t] = "ret_AtCore"
    /\ \E a \in DOMAIN heap : heap[a] # 0

\* C9: a slot never holds more than the increments completed through its
\* index, and holds exactly that many when a single thread has written
\* through the index; an aggregation over AccessAtCore(0..Size()-1) with no
\* store since it began returns the sum of the block's contents.
C9_Updates ==
    ctor_pc = "ready" =>
        /\ \A i \in Slots :
               /\ heap[AccessAtCorePtr(i)] <= incs[i]
               /\ Cardinality(writers[i]) <= 1 =>
                      heap[AccessAtCorePtr(i)] = incs[i]
        /\ (agg_pc = "done" /\ agg_clean) => agg_sum = SumHeap

\* two threads with the same index have both stored and one increment is
\* lost, and an aggregation that ran beside them returned a stale sum
C9_Witness ==
    /\ ctor_pc = "ready"
    /\ \E i \in Slots :
           /\ Cardinality(writers[i]) = 2
           /\ incs[i] = 2
           /\ heap[AccessAtCorePtr(i)] = 1
    /\ agg_pc = "done" /\ ~agg_clean /\ agg_sum # SumHeap

====
